---- MODULE Spec2Model ----
(***************************************************************************)
(* Model of octoprint_display_panel/__init__.py: the Display_panelPlugin   *)
(* controller, its three execution contexts (the host's plugin hooks, the  *)
(* RepeatedTimer thread and the RPi.GPIO callback thread) and the shared,  *)
(* unlocked state they read and write (screen_mode, system_stats,          *)
(* __print_data, the PIL image and the display).                           *)
(*                                                                         *)
(* Granularity: one step per Python statement that reads or writes shared   *)
(* state; the statements before it that touch only the thread's own locals *)
(* (the call, logging, the socket connect) belong to the same step.        *)
(* update_ui is one step per comparison of its if/elif chain (each reads   *)
(* screen_mode again) followed by the bottom region and the present, and   *)
(* check_system_stats is one step per dictionary store, because the code   *)
(* holds no lock across them.  The drawing of a region (its clear and the  *)
(* texts after it) is one step, except in update_ui_system, where the      *)
(* lookups that decide what is drawn and the drawing are two steps.        *)
(* print_complete is written once and never read, so it is not a variable  *)
(* here.                                                                   *)
(***************************************************************************)
EXTENDS Integers, Sequences, FiniteSets, TLC

VARIABLES
    screen_mode,    \* self.screen_mode
    system_stats,   \* self.system_stats: per key, the collection that stored it (Absent: no key)
    print_data,     \* self.__print_data
    image,          \* self.image, the shared PIL buffer update_ui* draw into
    panel,          \* what the SSD1306 shows (after disp.show())
    seen,           \* what update_ui_bottom last read from self._printer
    gpio_mode,      \* GPIO.getmode()
    input_pinset,   \* self.input_pinset
    detect,         \* channels with add_event_detect registered
    pc,             \* per thread, the statement it is at
    ret,            \* per thread, where update_ui returns to
    op,             \* the hook the host thread is executing
    gen,            \* the collection check_system_stats is performing / performed last
    startup,        \* on_after_startup: not called, running, returned, or left by an exception
    stops,          \* number of on_shutdown calls made
    base,           \* screen mode when the current run of mode presses began
    count,          \* presses in that run (1..NumModes)
    delivered,      \* the progress the host passed to on_print_progress last
    disk            \* the file system, as shutil.disk_usage('/') reports it (sizes in MiB)

vars == <<screen_mode, system_stats, print_data, image, panel, seen, gpio_mode,
          input_pinset, detect, pc, ret, op, gen, startup, stops, base, count,
          delivered, disk>>

----------------------------------------------------------------------------
(* Bounds *)

\* distinct collections told apart in system_stats (identities are reused cyclically)
NumGens == 2
\* on_shutdown calls the host makes
MaxStops == 2

(* Program constants *)

\* disp.width, line 47
Width == 128

\* a key system_stats does not hold yet (the dictionary starts empty, line 45)
Absent == 0

Threads == {"host", "timer", "gpio"}

\* file names a print-started payload carries
Names == {"part.gcode"}
\* progress values on_print_progress delivers (integers in 0..100)
ProgressValues == {0, 50}

----------------------------------------------------------------------------
(* ScreenMode *)

\* list(ScreenMode): members in definition order
Members == <<"PRINT", "PRINTER", "SYSTEM">>

ScreenModes == {Members[i] : i \in 1..Len(Members)}

IndexOf(m) == CHOOSE i \in 1..Len(Members) : Members[i] = m

\* a next() that forgets to wrap: stays on the last member
ScreenModeNextNoWrap(m) ==
    LET index == IndexOf(m) + 1
    IN  IF index > Len(Members) THEN Members[Len(Members)] ELSE Members[index]

\* a next() that wraps one member early
ScreenModeNextWrapEarly(m) ==
    LET index == IndexOf(m) + 1
    IN  IF index >= Len(Members) THEN Members[1] ELSE Members[index]

\* ScreenMode.next (1-based here, 0-based in the source)
ScreenModeNext(m) ==
    LET index == IndexOf(m) + 1
    IN  IF index > Len(Members) THEN Members[1] ELSE Members[index]

----------------------------------------------------------------------------
(* GPIO pin sets *)

BCM_PINS == <<4, 22, 17, 27>>
BOARD_PINS == <<7, 15, 11, 13>>
PinLabels == <<"mode", "cancel", "play", "pause">>

Pins(pinset) == IF pinset = "BCM" THEN BCM_PINS ELSE BOARD_PINS

PinSet(pinset) == {Pins(pinset)[i] : i \in 1..4}

\* GPIO.getmode() when the plugin starts: no numbering chosen yet, or BCM.  A GPIO
\* that another plugin has set to BOARD runs the same code with the other pin
\* numbers and is left out.
GpioModes == {"None", "BCM"}

\* how many pins configure_gpio registers before a GPIO call raises:
\* none (it raises at the first pin) or all of them (it does not raise)
FailPoints == {0, Len(BCM_PINS)}

\* self.input_pinset[channel]
Label(pinset, ch) == PinLabels[CHOOSE i \in 1..4 : Pins(pinset)[i] = ch]

----------------------------------------------------------------------------
(* Printer, as the host reports it *)

\* get_current_connection()[0] and is_printing(); a job runs only on an open connection
PrinterStates ==
    { [state |-> "Closed", printing |-> FALSE],
      [state |-> "Connecting", printing |-> FALSE],
      [state |-> "Operational", printing |-> FALSE],
      [state |-> "Operational", printing |-> TRUE] }

ConnectionEvents == {"Connected", "Connecting", "ConnectivityChanged",
                     "Disconnected", "Disconnecting"}
PrintEvents == {"PrintStarted", "PrintPaused", "PrintFailed", "PrintResumed",
                "PrintDone", "PrintCancelled"}
Events == ConnectionEvents \cup PrintEvents \cup {"Startup"}

----------------------------------------------------------------------------
(* Rendering *)

BlankBottom == [text |-> "", bar |-> 0, pct |-> 0]
BlankImage == [top |-> {}, bottom |-> BlankBottom]

\* Sizes of the file system are kept in MiB: 2^30 bytes are GiB of them, and
\* every figure of the Disk line is a size divided by 2^30 or a ratio of sizes.
MiB == 1048576
GiB == 1073741824 \div MiB

\* shutil.disk_usage('/') of a disk with the given sizes; total also counts the
\* blocks reserved for root, which are neither used nor free
DiskUsage(used, free, reserved) ==
    [total |-> used + free + reserved, used |-> used, free |-> free]

\* the disk of the runs of the whole plugin: 30 GiB used, 70 GiB free
ExampleDisk == DiskUsage(30 * GiB, 70 * GiB, 0)

\* a line that shows no disk figures
NoFigures == [used |-> -1, total |-> -1, percent |-> -1]

\* update_ui_system, line 283: the three figures of
\* "Disk: %s/%s GB %s%%" % (int(disk.used/1073741824),
\*     int((disk.used+disk.total)/1073741824),
\*     int(10000*disk.used/(disk.used+disk.free))/100),
\* the percentage in hundredths.  int() of a quotient that is not negative is \div.
DiskFigures(d) ==
    [used |-> d.used \div GiB,
     total |-> (d.used + d.total) \div GiB,
     percent |-> (10000 * d.used) \div (d.used + d.free)]

\* A line of text in a region: its label, for the file line the name drawn and
\* for the disk line its figures.  The figures of the other stat lines are not
\* kept in the image; the collection a render reads them from is system_stats
\* at the steps of update_ui_system.
Line(label) == <<label, "", NoFigures>>

DiskLine(d) == <<"Disk", "", DiskFigures(d)>>

\* the four stat lines, complete
FourLines == {Line("IP"), Line("Load"), Line("Mem"), DiskLine(disk)}

\* update_ui_system, lines 277-278: both lookups that open the try block succeed
StatsLookup(stats) == stats.memory # Absent /\ stats.disk # Absent

\* update_ui_system, lines 280-283: the lines the rest of the try block draws.
\* It draws line by line; a missing key raises and the handler (line 285) adds
\* the placeholder to what was drawn before.
UpdateUiSystem(stats) ==
    IF stats.ip = Absent
    THEN {Line("Gathering System Stats")}
    ELSE IF stats.load = Absent
    THEN {Line("IP"), Line("Gathering System Stats")}
    ELSE FourLines

\* update_ui_system, line 285: what the handler draws when a lookup raised
Gathering == {Line("Gathering System Stats")}

\* update_ui_printer, lines 292-297
UpdateUiPrinter == {Line("Mode: Printer")}

\* update_ui_print, lines 304-309
UpdateUiPrint(pd) == {<<"File", pd.fileName, NoFigures>>}

\* int((self.width - 5) * percentage / 100)
BarWidth(percentage) == ((Width - 5) * percentage) \div 100

\* the number printed by "%s%%" % (int(percentage * 100))
PercentText(percentage) == percentage * 100

\* update_ui_bottom
UpdateUiBottom(pr, pd) ==
    IF pr.state = "Closed"
    THEN [text |-> "Printer Not Connected", bar |-> 0, pct |-> 0]
    ELSE IF ~pr.printing
    THEN [text |-> "Waiting For Job", bar |-> 0, pct |-> 0]
    ELSE [text |-> "%", bar |-> BarWidth(pd.progress), pct |-> PercentText(pd.progress)]

\* a clear_display that fills the driver's buffer but never shows it
ClearDisplayNoShow(shown) == shown

\* clear_display: disp.fill(0); disp.show()
ClearDisplay(shown) == BlankImage

----------------------------------------------------------------------------
(* Initial state: the class attributes, lines 41-55 *)

Init ==
    /\ screen_mode = "SYSTEM"
    /\ system_stats = [ip |-> Absent, load |-> Absent, memory |-> Absent, disk |-> Absent]
    /\ print_data = [fileName |-> "", progress |-> 0]
    /\ image = BlankImage
    /\ panel = BlankImage
    /\ seen = [state |-> "", printing |-> FALSE]
    /\ gpio_mode \in GpioModes
    /\ input_pinset = "BCM"
    /\ detect = {}
    /\ pc = [t \in Threads |-> IF t = "timer" THEN "off" ELSE "idle"]
    /\ ret = [t \in Threads |-> "idle"]
    /\ op = ""
    /\ gen = 0
    /\ startup = "none"
    /\ stops = 0
    /\ base = "SYSTEM"
    /\ count = 0
    /\ delivered = 0
    /\ disk = ExampleDisk

Goto(t, l) == pc' = [pc EXCEPT ![t] = l]

----------------------------------------------------------------------------
(* update_ui, run by whichever thread called it *)

\* lines 249-250 and 274-278: the first comparison and, if it matches, the start
\* of update_ui_system: the top region is cleared and the try block looks up
\* 'memory' and 'disk'. What is drawn is decided here and drawn in a later step.
UiTop(t) ==
    /\ pc[t] = "ui_top"
    /\ IF screen_mode = "SYSTEM"
       THEN /\ image' = [image EXCEPT !.top = {}]
            /\ Goto(t, IF StatsLookup(system_stats) THEN "ui_system" ELSE "ui_gathering")
       ELSE /\ image' = image
            /\ Goto(t, "ui_printer")
    /\ UNCHANGED <<screen_mode, system_stats, print_data, panel, seen, gpio_mode,
                   input_pinset, detect, ret, op, gen, startup, stops, base, count,
                   delivered, disk>>

\* lines 280-283: the stat lines are drawn over whatever the region holds by now
UiSystem(t) ==
    /\ pc[t] = "ui_system"
    /\ image' = [image EXCEPT !.top = @ \cup UpdateUiSystem(system_stats)]
    /\ Goto(t, "ui_bottom")
    /\ UNCHANGED <<screen_mode, system_stats, print_data, panel, seen, gpio_mode,
                   input_pinset, detect, ret, op, gen, startup, stops, base, count,
                   delivered, disk>>

\* lines 284-285: the handler of a failed lookup draws the placeholder
UiGathering(t) ==
    /\ pc[t] = "ui_gathering"
    /\ image' = [image EXCEPT !.top = @ \cup Gathering]
    /\ Goto(t, "ui_bottom")
    /\ UNCHANGED <<screen_mode, system_stats, print_data, panel, seen, gpio_mode,
                   input_pinset, detect, ret, op, gen, startup, stops, base, count,
                   delivered, disk>>

\* lines 251-253: the second comparison, and update_ui_printer if it matches
UiTopPrinter(t) ==
    /\ pc[t] = "ui_printer"
    /\ IF screen_mode = "PRINTER"
       THEN /\ image' = [image EXCEPT !.top = UpdateUiPrinter]
            /\ Goto(t, "ui_bottom")
       ELSE /\ image' = image
            /\ Goto(t, "ui_print")
    /\ UNCHANGED <<screen_mode, system_stats, print_data, panel, seen, gpio_mode,
                   input_pinset, detect, ret, op, gen, startup, stops, base, count,
                   delivered, disk>>

\* lines 254-256: the last comparison, and update_ui_print if it matches;
\* if the mode has moved on past every comparison, the top region is left as it was
UiTopPrint(t) ==
    /\ pc[t] = "ui_print"
    /\ IF screen_mode = "PRINT"
       THEN image' = [image EXCEPT !.top = UpdateUiPrint(print_data)]
       ELSE image' = image
    /\ Goto(t, "ui_bottom")
    /\ UNCHANGED <<screen_mode, system_stats, print_data, panel, seen, gpio_mode,
                   input_pinset, detect, ret, op, gen, startup, stops, base, count,
                   delivered, disk>>

\* an update_ui_bottom that resets the progress when it finds no job running
UiBottomResetsProgress(t) ==
    /\ pc[t] = "ui_bottom"
    /\ \E pr \in PrinterStates :
          /\ seen' = pr
          /\ image' = [image EXCEPT !.bottom = UpdateUiBottom(pr, print_data)]
          /\ print_data' = IF pr.printing THEN print_data
                           ELSE [print_data EXCEPT !.progress = 0]
    /\ Goto(t, "ui_present")
    /\ UNCHANGED <<screen_mode, system_stats, panel, gpio_mode,
                   input_pinset, detect, ret, op, gen, startup, stops, base, count,
                   delivered, disk>>

\* line 258: the printer's state is read live, whatever it is at that moment
UiBottom(t) ==
    /\ pc[t] = "ui_bottom"
    /\ \E pr \in PrinterStates :
          /\ seen' = pr
          /\ image' = [image EXCEPT !.bottom = UpdateUiBottom(pr, print_data)]
    /\ Goto(t, "ui_present")
    /\ UNCHANGED <<screen_mode, system_stats, print_data, panel, gpio_mode,
                   input_pinset, detect, ret, op, gen, startup, stops, base, count,
                   delivered, disk>>

\* lines 261-262, and the return to the caller
UiPresent(t) ==
    /\ pc[t] = "ui_present"
    /\ panel' = image
    /\ Goto(t, ret[t])
    /\ ret' = [ret EXCEPT ![t] = "idle"]
    /\ op' = IF t = "host" /\ ret[t] = "idle" THEN "" ELSE op
    /\ UNCHANGED <<screen_mode, system_stats, print_data, image, seen, gpio_mode,
                   input_pinset, detect, gen, startup, stops, base, count,
                   delivered, disk>>

----------------------------------------------------------------------------
(* check_system_stats, run by on_after_startup (host) and by the timer *)

Collectors == {"host", "timer"}

\* where check_system_stats returns to
AfterStats(t) == IF t = "host" THEN "start_timer" ELSE "wait"

\* lines 166-168: the collection begins and stores its first key, or the socket
\* connect raises out of check_system_stats.  Nothing in check_system_stats or
\* in on_after_startup catches it: on_after_startup ends there.  In the timer's
\* thread it reaches RepeatedTimer, which ends the thread or goes on waiting.
StatsIp(t) ==
    /\ pc[t] = "connect"
    /\ \/ /\ gen' = (gen % NumGens) + 1
          /\ system_stats' = [system_stats EXCEPT !.ip = gen']
          /\ Goto(t, "load")
          /\ UNCHANGED <<startup, op>>
       \/ /\ IF t = "host"
             THEN /\ Goto(t, "idle")
                  /\ startup' = "aborted"
                  /\ op' = ""
             ELSE /\ \/ Goto(t, "dead")
                     \/ Goto(t, "wait")
                  /\ UNCHANGED <<startup, op>>
          /\ UNCHANGED <<gen, system_stats>>
    /\ UNCHANGED <<screen_mode, print_data, image, panel, seen, gpio_mode,
                   input_pinset, detect, ret, stops, base, count,
                   delivered, disk>>

StatsStore(t, at, key, to) ==
    /\ pc[t] = at
    /\ system_stats' = [system_stats EXCEPT ![key] = gen]
    /\ Goto(t, to)
    /\ UNCHANGED <<screen_mode, print_data, image, panel, seen, gpio_mode, input_pinset,
                   detect, ret, op, gen, startup, stops, base, count,
                   delivered, disk>>

\* line 170
StatsLoad(t) == StatsStore(t, "load", "load", "memory")
\* line 171
StatsMemory(t) == StatsStore(t, "memory", "memory", "disk")
\* line 172
StatsDisk(t) == StatsStore(t, "disk", "disk", "check_mode")

\* a check_system_stats that calls update_ui whatever the mode is
StatsCheckModeAlways(t) ==
    /\ pc[t] = "check_mode"
    /\ Goto(t, "ui_top")
    /\ ret' = [ret EXCEPT ![t] = AfterStats(t)]
    /\ UNCHANGED <<screen_mode, system_stats, print_data, image, panel, seen, gpio_mode,
                   input_pinset, detect, op, gen, startup, stops, base, count,
                   delivered, disk>>

\* lines 174-175
StatsCheckMode(t) ==
    /\ pc[t] = "check_mode"
    /\ IF screen_mode = "SYSTEM"
       THEN /\ Goto(t, "ui_top")
            /\ ret' = [ret EXCEPT ![t] = AfterStats(t)]
       ELSE /\ Goto(t, AfterStats(t))
            /\ ret' = ret
    /\ UNCHANGED <<screen_mode, system_stats, print_data, image, panel, seen, gpio_mode,
                   input_pinset, detect, op, gen, startup, stops, base, count,
                   delivered, disk>>

----------------------------------------------------------------------------
(* on_after_startup *)

\* the call, and setup_gpio (lines 183-196).  Selecting a numbering on a GPIO
\* that has none yet may raise (the GPIO cannot be opened); that is logged and
\* leaves the mode unset.  A mode another plugin has set is adopted as it is.
OnAfterStartup ==
    /\ pc["host"] = "idle"
    /\ startup = "none"
    /\ startup' = "running"
    /\ op' = "startup"
    /\ IF gpio_mode = "None"
       THEN \/ gpio_mode' = "BCM" /\ input_pinset' = "BCM"
            \/ UNCHANGED <<gpio_mode, input_pinset>>
       ELSE IF gpio_mode # "BCM"
       THEN gpio_mode' = gpio_mode /\ input_pinset' = "BOARD"
       ELSE UNCHANGED <<gpio_mode, input_pinset>>
    /\ Goto("host", "configure_gpio")
    /\ UNCHANGED <<screen_mode, system_stats, print_data, image, panel, seen, detect,
                   ret, gen, stops, base, count, delivered, disk>>

\* configure_gpio (lines 203-210): registers pin after pin; a raise ends the loop
ConfigureGpio ==
    /\ pc["host"] = "configure_gpio"
    /\ \E k \in FailPoints :
          /\ gpio_mode = "None" => k = 0
          /\ detect' = {Pins(input_pinset)[i] : i \in 1..k}
    /\ Goto("host", "clear_display")
    /\ UNCHANGED <<screen_mode, system_stats, print_data, image, panel, seen, gpio_mode,
                   input_pinset, ret, op, gen, startup, stops, base, count,
                   delivered, disk>>

\* line 66
StartupClearDisplay ==
    /\ pc["host"] = "clear_display"
    /\ panel' = ClearDisplay(panel)
    /\ Goto("host", "connect")
    /\ UNCHANGED <<screen_mode, system_stats, print_data, image, seen, gpio_mode,
                   input_pinset, detect, ret, op, gen, startup, stops, base, count,
                   delivered, disk>>

\* line 68: the timer thread starts; run_first makes its first call at once
StartSystemTimer ==
    /\ pc["host"] = "start_timer"
    /\ pc' = [pc EXCEPT !["host"] = "set_mode", !["timer"] = "wait"]
    /\ UNCHANGED <<screen_mode, system_stats, print_data, image, panel, seen, gpio_mode,
                   input_pinset, detect, ret, op, gen, startup, stops, base, count,
                   delivered, disk>>

\* lines 69-71
StartupSetMode ==
    /\ pc["host"] = "set_mode"
    /\ screen_mode' = "SYSTEM"
    /\ base' = "SYSTEM"
    /\ count' = 0
    /\ Goto("host", "ui_top")
    /\ ret' = [ret EXCEPT !["host"] = "started"]
    /\ UNCHANGED <<system_stats, print_data, image, panel, seen, gpio_mode, input_pinset,
                   detect, op, gen, startup, stops, delivered, disk>>

\* on_after_startup returns
StartupReturn ==
    /\ pc["host"] = "started"
    /\ startup' = "done"
    /\ op' = ""
    /\ Goto("host", "idle")
    /\ UNCHANGED <<screen_mode, system_stats, print_data, image, panel, seen, gpio_mode,
                   input_pinset, detect, ret, gen, stops, base, count,
                   delivered, disk>>

----------------------------------------------------------------------------
(* The other host hooks.  The host calls them one at a time, after            *)
(* on_after_startup has returned or raised.                                   *)

HostIdle == pc["host"] = "idle" /\ startup \in {"done", "aborted"}

\* the host delivers events and progress until it shuts the plugin down
HostServing == HostIdle /\ stops = 0

\* on_shutdown, lines 75-80
OnShutdown ==
    /\ HostIdle
    /\ stops < MaxStops
    /\ stops' = stops + 1
    /\ panel' = ClearDisplay(panel)
    /\ UNCHANGED <<screen_mode, system_stats, print_data, image, seen, gpio_mode,
                   input_pinset, detect, pc, ret, op, gen, startup, base, count,
                   delivered, disk>>

\* an on_event that forgets the job when it ends
OnEventClearsJob(event, name) ==
    /\ HostServing
    /\ IF event \in ConnectionEvents
       THEN /\ Goto("host", "ui_top")
            /\ op' = "update"
            /\ UNCHANGED print_data
       ELSE IF event = "PrintStarted"
       THEN /\ print_data' = [print_data EXCEPT !.fileName = name]
            /\ Goto("host", "print_started_mode")
            /\ op' = "print_started"
       ELSE IF event \in PrintEvents
       THEN /\ Goto("host", "ui_top")
            /\ op' = "update"
            /\ print_data' = IF event \in {"PrintDone", "PrintCancelled", "PrintFailed"}
                             THEN [fileName |-> "", progress |-> 0]
                             ELSE print_data
       ELSE UNCHANGED <<pc, op, print_data>>
    /\ UNCHANGED <<screen_mode, system_stats, image, panel, seen, gpio_mode, input_pinset,
                   detect, ret, gen, startup, stops, base, count, delivered, disk>>

\* on_event, lines 89-96: the call, up to the first statement with an effect
OnEvent(event, name) ==
    /\ HostServing
    /\ IF event \in ConnectionEvents
       THEN /\ Goto("host", "ui_top")
            /\ op' = "update"
            /\ UNCHANGED print_data
       ELSE IF event = "PrintStarted"
       THEN /\ print_data' = [print_data EXCEPT !.fileName = name]
            /\ Goto("host", "print_started_mode")
            /\ op' = "print_started"
       ELSE IF event \in PrintEvents
       THEN /\ Goto("host", "ui_top")
            /\ op' = "update"
            /\ UNCHANGED print_data
       ELSE UNCHANGED <<pc, op, print_data>>
    /\ UNCHANGED <<screen_mode, system_stats, image, panel, seen, gpio_mode, input_pinset,
                   detect, ret, gen, startup, stops, base, count,
                   delivered, disk>>

\* on_event, lines 97-102
OnEventSetMode ==
    /\ pc["host"] = "print_started_mode"
    /\ screen_mode' = "PRINT"
    /\ base' = "PRINT"
    /\ count' = 0
    /\ Goto("host", "ui_top")
    /\ UNCHANGED <<system_stats, print_data, image, panel, seen, gpio_mode, input_pinset,
                   detect, ret, op, gen, startup, stops, delivered, disk>>

\* an on_print_progress that also switches to the print screen
OnPrintProgressForcesPrint(progress) ==
    /\ HostServing
    /\ print_data' = [print_data EXCEPT !.progress = progress]
    /\ delivered' = progress
    /\ screen_mode' = "PRINT"
    /\ op' = "update"
    /\ Goto("host", "ui_top")
    /\ UNCHANGED <<system_stats, image, panel, seen, gpio_mode, input_pinset,
                   detect, ret, gen, startup, stops, base, count, disk>>

\* on_print_progress, lines 111-113
OnPrintProgress(progress) ==
    /\ HostServing
    /\ print_data' = [print_data EXCEPT !.progress = progress]
    /\ delivered' = progress
    /\ op' = "update"
    /\ Goto("host", "ui_top")
    /\ UNCHANGED <<screen_mode, system_stats, image, panel, seen, gpio_mode, input_pinset,
                   detect, ret, gen, startup, stops, base, count, disk>>

----------------------------------------------------------------------------
(* The timer thread: RepeatedTimer(5, self.check_system_stats, ...), line 155 *)

\* the timer's wait ends and it calls check_system_stats
TimerTick ==
    /\ pc["timer"] = "wait"
    /\ Goto("timer", "connect")
    /\ UNCHANGED <<screen_mode, system_stats, print_data, image, panel, seen, gpio_mode,
                   input_pinset, detect, ret, op, gen, startup, stops, base, count,
                   delivered, disk>>

----------------------------------------------------------------------------
(* The GPIO callback thread: callbacks run one after the other *)

\* a rising edge on a channel with event detection (line 208) runs
\* handle_gpio_event (lines 217-225), which for the mode button runs next_mode
\* up to its assignment (line 232); any other button returns at once
HandleGpioEvent(ch) ==
    /\ pc["gpio"] = "idle"
    /\ ch \in detect
    /\ IF ch \in PinSet(input_pinset) /\ Label(input_pinset, ch) = "mode"
       THEN /\ screen_mode' = ScreenModeNext(screen_mode)
            /\ IF count = Len(Members)
               THEN base' = screen_mode /\ count' = 1
               ELSE base' = base /\ count' = count + 1
            /\ Goto("gpio", "ui_top")
       ELSE UNCHANGED <<screen_mode, base, count, pc>>
    /\ UNCHANGED <<system_stats, print_data, image, panel, seen, gpio_mode, input_pinset,
                   detect, ret, op, gen, startup, stops, delivered, disk>>

----------------------------------------------------------------------------

Next ==
    \/ OnAfterStartup
    \/ ConfigureGpio
    \/ StartupClearDisplay
    \/ StartSystemTimer
    \/ StartupSetMode
    \/ StartupReturn
    \/ OnShutdown
    \/ \E e \in Events, n \in Names : OnEvent(e, n)
    \/ OnEventSetMode
    \/ \E p \in ProgressValues : OnPrintProgress(p)
    \/ TimerTick
    \/ \E ch \in PinSet("BCM") \cup PinSet("BOARD") : HandleGpioEvent(ch)
    \/ \E t \in Collectors :
          StatsIp(t) \/ StatsLoad(t) \/ StatsMemory(t)
              \/ StatsDisk(t) \/ StatsCheckMode(t)
    \/ \E t \in Threads :
          UiTop(t) \/ UiSystem(t) \/ UiGathering(t) \/ UiTopPrinter(t)
              \/ UiTopPrint(t) \/ UiBottom(t) \/ UiPresent(t)

Spec == Init /\ [][Next]_vars

----------------------------------------------------------------------------
(* Steps and situations the properties speak of *)

InUpdateUi(t) == pc[t] \in {"ui_top", "ui_system", "ui_gathering", "ui_printer",
                            "ui_print", "ui_bottom", "ui_present"}

\* an accepted press of the mode button: next_mode assigns screen_mode
ModePress == pc["gpio"] = "idle" /\ pc'["gpio"] = "ui_top"

\* the timer calls check_system_stats
TickBegins == pc["timer"] = "wait" /\ pc'["timer"] = "connect"

\* on_event(PRINT_STARTED) is entered and stores the file name
PrintStartedCall == op # "print_started" /\ op' = "print_started"

\* on_event(PRINT_STARTED) assigns screen_mode
PrintStartedSetMode == pc["host"] = "print_started_mode" /\ pc'["host"] = "ui_top"

\* the update_ui called by on_event(PRINT_STARTED) is through with the top region
PrintStartedRender ==
    /\ op = "print_started"
    /\ pc["host"] \in {"ui_system", "ui_gathering", "ui_printer", "ui_print"}
    /\ pc'["host"] = "ui_bottom"

\* some thread runs update_ui_bottom
BottomDrawn == \E t \in Threads : pc[t] = "ui_bottom" /\ pc'[t] = "ui_present"

\* on_after_startup is over
Started == startup \in {"done", "aborted"}

----------------------------------------------------------------------------
(* C1 *)

\* the order the claim states
ClaimedNext(m) ==
    IF m = "SYSTEM" THEN "PRINTER" ELSE IF m = "PRINTER" THEN "PRINT" ELSE "SYSTEM"

\* the order of the enum's definition
DefinitionNext(m) ==
    IF m = "SYSTEM" THEN "PRINT" ELSE IF m = "PRINT" THEN "PRINTER" ELSE "SYSTEM"

\* C1 as claimed: every accepted mode press moves screen_mode along
\* SYSTEM -> PRINTER -> PRINT -> SYSTEM.
C1_ClaimedOrder == [][ModePress => screen_mode' = ClaimedNext(screen_mode)]_vars

\* C1 as amended: next is total and every accepted mode press moves screen_mode
\* along SYSTEM -> PRINT -> PRINTER -> SYSTEM, so presses from SYSTEM visit PRINT,
\* then PRINTER, then SYSTEM.
C1_DefinitionOrder ==
    [][/\ screen_mode \in ScreenModes
       /\ ModePress => screen_mode' = DefinitionNext(screen_mode)]_vars

\* three presses in a row from SYSTEM are over, and the panel is at SYSTEM again
C1_Witness == base = "SYSTEM" /\ count = 3 /\ screen_mode = "SYSTEM" /\ Started

----------------------------------------------------------------------------
(* C2 *)

\* C2: for every mode m, next applied 3 times (the number of modes) gives m and
\* applied 1 or 2 times does not; and in a run of mode presses with no other
\* write of the mode in between, the mode differs from the run's first mode
\* after 1 and 2 presses and equals it after 3.
C2_CycleClosure ==
    /\ \A m \in ScreenModes :
          /\ ScreenModeNext(m) # m
          /\ ScreenModeNext(ScreenModeNext(m)) # m
          /\ ScreenModeNext(ScreenModeNext(ScreenModeNext(m))) = m
    /\ count \in 1..(Len(Members) - 1) => screen_mode # base
    /\ count = Len(Members) => screen_mode = base

\* three presses in a row from PRINT, where a print-started event left the panel
C2_Witness ==
    base = "PRINT" /\ count = Len(Members) /\ screen_mode = "PRINT" /\ pc["gpio"] = "idle"

----------------------------------------------------------------------------
(* C3 *)

\* C3 as claimed: once started, only an accepted mode press changes screen_mode.
C3_OnlyButton == [][(Started /\ screen_mode' # screen_mode) => ModePress]_vars

\* C3 as amended: once started, only an accepted mode press or a print-started
\* event changes screen_mode; timer ticks, the other host events and
\* print-progress callbacks leave it as it is.
C3_ButtonOrPrintStarted ==
    [][(Started /\ screen_mode' # screen_mode) => (ModePress \/ PrintStartedSetMode)]_vars

\* a second collection by the timer is over, a progress callback has run and a
\* print-started event has forced PRINT
C3_Witness ==
    /\ startup = "done"
    /\ gen = 2
    /\ pc["timer"] = "wait"
    /\ print_data.progress = 50
    /\ op = "print_started"
    /\ pc["host"] = "ui_bottom"
    /\ screen_mode = "PRINT"

----------------------------------------------------------------------------
(* C4 *)

\* C4: a print-started event with name n stores n as the file name, sets the
\* mode to PRINT, leaves the progress alone, and the update_ui it then calls
\* draws with mode PRINT.
C4_PrintStarted ==
    [][/\ PrintStartedCall =>
             /\ print_data'.fileName \in Names
             /\ print_data'.progress = print_data.progress
       /\ PrintStartedSetMode => (screen_mode' = "PRINT" /\ print_data' = print_data)
       /\ PrintStartedRender =>
             /\ pc["host"] = "ui_print"
             /\ screen_mode = "PRINT"
             /\ image'.top = UpdateUiPrint(print_data)]_vars

----------------------------------------------------------------------------
(* C5 *)

\* C5: a raise in stats collection aborts neither on_after_startup nor the
\* timer's thread.
C5_StatsFailureSwallowed == startup # "aborted" /\ pc["timer"] # "dead"

----------------------------------------------------------------------------
(* C6 *)

\* C6: at most one thread is inside update_ui at any time.
C6_SingleRender == Cardinality({t \in Threads : InUpdateUi(t)}) <= 1

----------------------------------------------------------------------------
(* C7 *)

\* C7: once on_shutdown has run, the timer is halted and the callbacks are
\* detached: no tick begins, no mode press is accepted, and no step puts a
\* frame on the display.
C7_StaysCleared ==
    [][stops > 0 => (~TickBegins /\ ~ModePress /\ panel' = BlankImage)]_vars

----------------------------------------------------------------------------
(* C8 *)

\* C8: a further on_shutdown leaves the display blank and the mode, the
\* system stats and the print data as they were.
C8_StopIdempotent ==
    [][(stops >= 1 /\ stops' = stops + 1) =>
           /\ panel' = BlankImage
           /\ UNCHANGED <<screen_mode, system_stats, print_data>>]_vars

\* on_shutdown has run twice after frames were drawn
C8_Witness == stops = 2 /\ panel = BlankImage /\ image.top # {}

----------------------------------------------------------------------------
(* C9 *)

\* C9: drawn for a connected, printing printer, the bar is
\* floor((W-5)*p/100) wide and the text is p itself before the percent sign;
\* p = 50 gives 61 and "50%".
C9_ProgressBar ==
    [][(BottomDrawn /\ seen'.state = "Operational" /\ seen'.printing) =>
           /\ image'.bottom.bar = ((Width - 5) * print_data.progress) \div 100
           /\ image'.bottom.pct = print_data.progress
           /\ print_data.progress = 50 =>
                  (image'.bottom.bar = 61 /\ image'.bottom.pct = 50)]_vars

----------------------------------------------------------------------------
(* C10 *)

\* C10: the bottom region shows "Printer Not Connected" for every connection
\* state other than an open one, "Waiting For Job" for an open connection with
\* no job, and the progress bar only for an open connection with a job.
C10_ThreeWay ==
    seen.state # "" =>
        image.bottom.text =
            IF seen.state # "Operational" THEN "Printer Not Connected"
            ELSE IF ~seen.printing THEN "Waiting For Job"
            ELSE "%"

----------------------------------------------------------------------------
(* C12: stat lines are drawn all or none *)

\* what a top region holds of update_ui_system's output
StatPart(top) == top \cap (FourLines \cup Gathering)

\* C12: a presented frame never shows partial stat lines: of the system view its
\* top region holds either the placeholder line alone or all four stat lines
\* and no placeholder, whatever collection or render ran beside the render.
C12_NoPartialStats == StatPart(panel.top) \in {{}, Gathering, FourLines}

----------------------------------------------------------------------------
(* C13: what a timer tick does *)

\* the timer's check_system_stats has stored its four keys and tests the mode
TickChecksMode == pc["timer"] = "check_mode" /\ pc'["timer"] # "check_mode"

\* every key of system_stats comes from the collection g
Snapshot(g) == system_stats = [ip |-> g, load |-> g, memory |-> g, disk |-> g]

\* C13: a tick that completes its collection has refreshed the whole snapshot
\* and calls update_ui exactly if screen_mode is SYSTEM when it tests it; in
\* PRINTER or PRINT mode it returns without drawing or presenting; its one
\* update_ui ends the tick; and no step of the timer changes screen_mode or
\* the print data.
C13_TickRenders ==
    [][/\ TickChecksMode =>
            /\ Snapshot(gen)
            /\ (screen_mode = "SYSTEM") <=> (pc'["timer"] = "ui_top")
            /\ screen_mode # "SYSTEM" =>
                   pc'["timer"] = "wait" /\ image' = image /\ panel' = panel
       /\ (pc["timer"] = "ui_present" /\ pc'["timer"] # "ui_present") =>
              pc'["timer"] = "wait"
       /\ pc'["timer"] # pc["timer"] =>
              screen_mode' = screen_mode /\ print_data' = print_data]_vars

\* a second tick has completed its collection in SYSTEM mode and is in update_ui
C13_Witness ==
    /\ pc["timer"] = "ui_top" /\ ret["timer"] = "wait"
    /\ screen_mode = "SYSTEM"
    /\ gen = 2 /\ Snapshot(2)

----------------------------------------------------------------------------
(* C14: one collection per render *)

\* update_ui_system looks up 'memory' and 'disk' (lines 277-278)
SystemLookup == \E t \in Threads : pc[t] = "ui_top" /\ pc'[t] = "ui_system"

\* update_ui_system reads 'ip' and 'load' as it draws them (lines 280-281)
SystemDraw == \E t \in Threads : pc[t] = "ui_system" /\ pc'[t] = "ui_bottom"

\* C14: the snapshot is replaced as a whole, so a render reads ip, load, memory
\* and disk of one and the same collection: the two keys it looks up together
\* are of one collection, and so are the two it reads as it draws.
C14_OneCollection ==
    [][/\ SystemLookup => system_stats.memory = system_stats.disk
       /\ SystemDraw => system_stats.ip = system_stats.load]_vars

----------------------------------------------------------------------------
(* C15: progress events *)

\* the host calls on_print_progress, or on_event with an event that only
\* calls update_ui
UpdateCall == pc["host"] = "idle" /\ pc'["host"] = "ui_top"

\* the update_ui of such a call has presented its frame
UpdateReturn ==
    op = "update" /\ pc["host"] = "ui_present" /\ pc'["host"] # "ui_present"

\* C15: a progress event with value p stores p as the progress and changes
\* nothing else of the state (mode, file name and system stats stay), and is
\* followed by one update_ui, after which the handler returns; the events
\* print-done, -cancelled, -failed, -paused and -resumed change neither the
\* file name nor the progress, which only a print-started event or a progress
\* event changes.
C15_ProgressOnly ==
    [][/\ print_data'.progress = delivered'
       /\ UpdateCall =>
             /\ print_data'.fileName = print_data.fileName
             /\ screen_mode' = screen_mode
             /\ system_stats' = system_stats
             /\ op' = "update" /\ ret'["host"] = "idle"
             /\ image' = image /\ panel' = panel
       /\ UpdateReturn => pc'["host"] = "idle" /\ op' = "" /\ panel' = image
       /\ print_data'.fileName # print_data.fileName => PrintStartedCall]_vars

\* the progress event with value 50 has been served in PRINTER mode, after a
\* job was started, and a later event is being served: name and progress stay
C15_Witness ==
    /\ print_data = [fileName |-> "part.gcode", progress |-> 50]
    /\ delivered = 50
    /\ screen_mode = "PRINTER"
    /\ op = "update" /\ pc["host"] = "ui_present"
    /\ panel.bottom.pct = PercentText(50)

----------------------------------------------------------------------------
(* C16: rendering reads the state and writes only the image and the display *)

\* a thread executes a statement of update_ui
RenderStep == \E t \in Threads : InUpdateUi(t) /\ pc'[t] # pc[t]

\* C16: rendering never mutates the panel state: every step of update_ui, from
\* its first comparison to disp.show(), leaves the screen mode, the system
\* stats, the file name and the progress as they were.
C16_RenderReadsOnly ==
    [][RenderStep =>
          /\ screen_mode' = screen_mode
          /\ system_stats' = system_stats
          /\ print_data' = print_data]_vars

\* a render of the print screen has been presented in full and the state it drew is intact
C16_Witness ==
    /\ screen_mode = "PRINT"
    /\ print_data = [fileName |-> "part.gcode", progress |-> 50]
    /\ panel.top = UpdateUiPrint(print_data)
    /\ panel.bottom = UpdateUiBottom([state |-> "Operational", printing |-> TRUE], print_data)
    /\ \A t \in Threads : ~InUpdateUi(t)

----------------------------------------------------------------------------
(* C17: a GPIO that cannot be set up *)

\* setup_gpio or configure_gpio raised: no channel has event detection
NoInput == startup # "none" /\ pc["host"] # "configure_gpio" /\ detect = {}

\* C17: a failure while setting up the GPIO is logged and swallowed:
\* on_after_startup still runs to its end, so that once it is over the first
\* collection is stored, the timer is started and the hook has returned
\* normally; the plugin then goes on without presses of the button.
C17_StartSurvivesGpioFailure ==
    /\ (NoInput /\ Started) =>
           /\ startup = "done"
           /\ pc["timer"] # "off"
           /\ StatsLookup(system_stats)
    /\ NoInput => pc["gpio"] = "idle"

----------------------------------------------------------------------------
(* C18: the figures of the Disk line *)

UsedSizes == {0, 512, 30 * GiB, 30 * GiB + 700, 100 * GiB}
FreeSizes == {1, 600, 70 * GiB, 70 * GiB + 900, 120 * GiB}
ReservedSizes == {0, 300, 5 * GiB}

\* the disks the Disk line is drawn for; a file system of size zero is left out
DiskUsages ==
    {DiskUsage(u, f, r) : u \in UsedSizes, f \in FreeSizes, r \in ReservedSizes}

\* on_after_startup has stored its first collection, found the mode to be
\* SYSTEM and is in update_ui_system, past the lookups: the state of the plugin
\* before it draws its first stat lines, for any of the disks
InitDisk ==
    /\ screen_mode = "SYSTEM"
    /\ system_stats = [ip |-> 1, load |-> 1, memory |-> 1, disk |-> 1]
    /\ print_data = [fileName |-> "", progress |-> 0]
    /\ image = BlankImage
    /\ panel = BlankImage
    /\ seen = [state |-> "", printing |-> FALSE]
    /\ gpio_mode = "BCM"
    /\ input_pinset = "BCM"
    /\ detect = PinSet("BCM")
    /\ pc = [t \in Threads |->
              IF t = "host" THEN "ui_system" ELSE IF t = "timer" THEN "off" ELSE "idle"]
    /\ ret = [t \in Threads |-> IF t = "host" THEN "start_timer" ELSE "idle"]
    /\ op = "startup"
    /\ gen = 1
    /\ startup = "running"
    /\ stops = 0
    /\ base = "SYSTEM"
    /\ count = 0
    /\ delivered = 0
    /\ disk \in DiskUsages

\* the host thread draws the stat lines
NextDisk == UiSystem("host")

SpecDisk == InitDisk /\ [][NextDisk]_vars

\* the state InitDisk describes, as the whole plugin reaches it
InitDiskReached ==
    /\ pc = [host |-> "ui_system", timer |-> "off", gpio |-> "idle"]
    /\ ret["host"] = "start_timer"
    /\ image = BlankImage /\ panel = BlankImage
    /\ detect = PinSet("BCM")
    /\ Snapshot(1) /\ gen = 1
    /\ screen_mode = "SYSTEM" /\ base = "SYSTEM" /\ count = 0
    /\ op = "startup" /\ startup = "running" /\ stops = 0

\* C18: the Disk line shows floor(used / 2^30), floor(total / 2^30) and the
\* percentage floor(10000 * used / (used + free)) / 100; for 30 GiB used,
\* 70 GiB free and 100 GiB in total it shows 30, 100 and 30.00.
C18_DiskLine ==
    \A l \in image.top \cup panel.top :
       l[1] = "Disk" =>
          /\ l[3] = [used |-> disk.used \div GiB,
                     total |-> disk.total \div GiB,
                     percent |-> (10000 * disk.used) \div (disk.used + disk.free)]
          /\ disk = ExampleDisk =>
                 l[3] = [used |-> 30, total |-> 100, percent |-> 3000]

----------------------------------------------------------------------------
(* C19: the frame shown when nothing runs *)

\* on_after_startup has returned, on_shutdown has not been called, and no
\* hook, timer call or GPIO callback is executing
Quiescent ==
    /\ startup = "done" /\ stops = 0
    /\ pc["host"] = "idle" /\ pc["gpio"] = "idle"
    /\ pc["timer"] \in {"wait", "dead"}

\* the top regions update_ui draws for a screen mode
TopsOf(m) ==
    IF m = "SYSTEM" THEN {Gathering, FourLines}
    ELSE IF m = "PRINTER" THEN {UpdateUiPrinter}
    ELSE {UpdateUiPrint(print_data)}

\* C19: between startup and shutdown, whenever no handler is executing, the
\* frame presented last has the top region of the current screen mode.
C19_ShownMatchesMode == Quiescent => panel.top \in TopsOf(screen_mode)

----------------------------------------------------------------------------
(* C20: the filled rectangle of the progress bar *)

\* C20: while a job is printing, the filled rectangle (2, top+4, bar_width,
\* top+8) of the progress bar is well formed for every progress from 0 to 100:
\* its right edge bar_width = floor((W-5)*p/100) is not left of its left edge 2
\* and stays inside the outline, 2 <= bar_width <= W-3.
C20_BarWellFormed ==
    \A f \in {image, panel} :
       f.bottom.text = "%" => (2 <= f.bottom.bar /\ f.bottom.bar <= Width - 3)

============================================================================
